---- MODULE Spec2Model ----
(***************************************************************************)
(* EventGridMqttClient (src/src/eventGridMqttClient.ts): a session wrapper *)
(* around one MQTT transport client.  The session keeps a client reference *)
(* and a boolean connected flag; the flag is written by the handlers the   *)
(* session attaches to every transport client it creates.                  *)
(*                                                                         *)
(* JavaScript runs each handler and each synchronous stretch of an async   *)
(* method to completion, so an action is one such stretch: a call up to    *)
(* its first await, one wake-up of the poll loop, one callback, one event. *)
(***************************************************************************)
EXTENDS Integers, Sequences, FiniteSets

(* ---------------- bounds of the model ---------------- *)
\* transport clients one session may create (one per connect() that reads its files)
MaxClients == 2
\* calls that may be in progress at the same time
MaxTasks == 1
\* milliseconds by which the timer of the poll loop fires late
Lateness == 4900

(* ---------------- program constants ---------------- *)
\* while (... Date.now() - start < 10_000)
Timeout == 10000
\* setTimeout(r, 100)
PollInterval == 100
\* this.clientId.length > 23
MaxClientIdLength == 23

Clients == 1 .. MaxClients
Tasks == 1 .. MaxTasks

(* ---------------- configuration values ---------------- *)
\* an option the caller left out (a value no string of characters equals)
Undefined == <<"undefined">>

Rep(n, c) == [i \in 1 .. n |-> c]

\* strings are sequences of characters
Namespaces == {Undefined, <<>>, <<"n", "s">>}
Regions == {Undefined, <<>>, <<"e", "u">>}
Usernames == {Undefined, <<>>, <<"u">>}
ClientIds ==
    {Undefined, <<>>, <<"a", "$", "$">>, <<"$", "a", "#", "$">>,
     Rep(MaxClientIdLength - 2, "a") \o <<"-", "1">>,
     Rep(MaxClientIdLength + 1, "a"),
     Append(Rep(MaxClientIdLength, "a"), "$")}
CertPaths == {Undefined, <<>>, <<"c">>}
KeyPaths == {Undefined, <<>>, <<"k">>}
Paths == {<<"c">>, <<"k">>}

Configs ==
    [namespace : Namespaces, region : Regions, clientId : ClientIds,
     username : Usernames, clientCertFile : CertPaths, clientKeyFile : KeyPaths]

NoConfig == [namespace |-> Undefined, region |-> Undefined, clientId |-> Undefined,
             username |-> Undefined, clientCertFile |-> Undefined,
             clientKeyFile |-> Undefined]

\* JavaScript's !x for a string option: undefined and '' are falsy
Falsy(x) == x = Undefined \/ x = <<>>

\* /^[a-zA-Z0-9-_]$/ over the characters the model draws from
AllowedChars == {"a", "Z", "1", "-", "_"}

\* [...new Set([...clientId].filter(c => !allowed(c)))]: first occurrences, in order
RECURSIVE Dedup(_)
Dedup(s) ==
    IF s = <<>> THEN <<>>
    ELSE LET init == Dedup(SubSeq(s, 1, Len(s) - 1))
             last == s[Len(s)]
         IN  IF \E i \in 1 .. Len(init) : init[i] = last THEN init
             ELSE Append(init, last)

InvalidChars(id) == Dedup(SelectSeq(id, LAMBDA c : c \notin AllowedChars))

\* fs.existsSync(path) on a disk holding the files of `disk`
ExistsSync(disk, path) == ~Falsy(path) /\ path \in disk

NoError == [kind |-> "none", chars |-> <<>>]
Err(k) == [kind |-> k, chars |-> <<>>]

ValidateConfiguration_NoUsernameCheck(c, disk) ==
    IF Falsy(c.namespace) THEN Err("Namespace is required")
    ELSE IF Falsy(c.region) THEN Err("Region is required")
    ELSE IF Falsy(c.clientId) THEN Err("Client ID is required")
    ELSE IF Falsy(c.clientCertFile) THEN Err("Client certificate file is required")
    ELSE IF Falsy(c.clientKeyFile) THEN Err("Client private key file is required")
    ELSE IF Len(c.clientId) > MaxClientIdLength THEN Err("Client ID too long")
    ELSE IF Len(InvalidChars(c.clientId)) > 0
         THEN [kind |-> "Client ID contains invalid characters",
               chars |-> InvalidChars(c.clientId)]
    ELSE IF ~ExistsSync(disk, c.clientCertFile) THEN Err("Client certificate file not found")
    ELSE IF ~ExistsSync(disk, c.clientKeyFile) THEN Err("Client key file not found")
    ELSE NoError

ValidateConfiguration_LengthOffByOne(c, disk) ==
    IF Falsy(c.namespace) THEN Err("Namespace is required")
    ELSE IF Falsy(c.region) THEN Err("Region is required")
    ELSE IF Falsy(c.clientId) THEN Err("Client ID is required")
    ELSE IF Falsy(c.username) THEN Err("Username is required")
    ELSE IF Falsy(c.clientCertFile) THEN Err("Client certificate file is required")
    ELSE IF Falsy(c.clientKeyFile) THEN Err("Client private key file is required")
    ELSE IF Len(c.clientId) >= MaxClientIdLength THEN Err("Client ID too long")
    ELSE IF Len(InvalidChars(c.clientId)) > 0
         THEN [kind |-> "Client ID contains invalid characters",
               chars |-> InvalidChars(c.clientId)]
    ELSE IF ~ExistsSync(disk, c.clientCertFile) THEN Err("Client certificate file not found")
    ELSE IF ~ExistsSync(disk, c.clientKeyFile) THEN Err("Client key file not found")
    ELSE NoError

ValidateConfiguration_NoKeyFileCheck(c, disk) ==
    IF Falsy(c.namespace) THEN Err("Namespace is required")
    ELSE IF Falsy(c.region) THEN Err("Region is required")
    ELSE IF Falsy(c.clientId) THEN Err("Client ID is required")
    ELSE IF Falsy(c.username) THEN Err("Username is required")
    ELSE IF Falsy(c.clientCertFile) THEN Err("Client certificate file is required")
    ELSE IF Falsy(c.clientKeyFile) THEN Err("Client private key file is required")
    ELSE IF Len(c.clientId) > MaxClientIdLength THEN Err("Client ID too long")
    ELSE IF Len(InvalidChars(c.clientId)) > 0
         THEN [kind |-> "Client ID contains invalid characters",
               chars |-> InvalidChars(c.clientId)]
    ELSE IF ~ExistsSync(disk, c.clientCertFile) THEN Err("Client certificate file not found")
    ELSE NoError

ValidateConfiguration_CharsetBeforeLength(c, disk) ==
    IF Falsy(c.namespace) THEN Err("Namespace is required")
    ELSE IF Falsy(c.region) THEN Err("Region is required")
    ELSE IF Falsy(c.clientId) THEN Err("Client ID is required")
    ELSE IF Falsy(c.username) THEN Err("Username is required")
    ELSE IF Falsy(c.clientCertFile) THEN Err("Client certificate file is required")
    ELSE IF Falsy(c.clientKeyFile) THEN Err("Client private key file is required")
    ELSE IF Len(InvalidChars(c.clientId)) > 0
         THEN [kind |-> "Client ID contains invalid characters",
               chars |-> InvalidChars(c.clientId)]
    ELSE IF Len(c.clientId) > MaxClientIdLength THEN Err("Client ID too long")
    ELSE IF ~ExistsSync(disk, c.clientCertFile) THEN Err("Client certificate file not found")
    ELSE IF ~ExistsSync(disk, c.clientKeyFile) THEN Err("Client key file not found")
    ELSE NoError

\* validateConfiguration(): the error it throws, or NoError
ValidateConfiguration(c, disk) ==
    IF Falsy(c.namespace) THEN Err("Namespace is required")
    ELSE IF Falsy(c.region) THEN Err("Region is required")
    ELSE IF Falsy(c.clientId) THEN Err("Client ID is required")
    ELSE IF Falsy(c.username) THEN Err("Username is required")
    ELSE IF Falsy(c.clientCertFile) THEN Err("Client certificate file is required")
    ELSE IF Falsy(c.clientKeyFile) THEN Err("Client private key file is required")
    ELSE IF Len(c.clientId) > MaxClientIdLength THEN Err("Client ID too long")
    ELSE IF Len(InvalidChars(c.clientId)) > 0
         THEN [kind |-> "Client ID contains invalid characters",
               chars |-> InvalidChars(c.clientId)]
    ELSE IF ~ExistsSync(disk, c.clientCertFile) THEN Err("Client certificate file not found")
    ELSE IF ~ExistsSync(disk, c.clientKeyFile) THEN Err("Client key file not found")
    ELSE NoError

(* ---------------- state ---------------- *)
VARIABLES
    phase,      \* "new": before the constructor; "ready": constructed; "threw"
    cfg,        \* the six readonly fields the constructor copies from opts
    ctorError,  \* what the constructor threw
    files,      \* the files on disk when the constructor ran
    client,     \* this.client: 0 is null, else the transport client held
    connected,  \* this.connected
    nClients,   \* transport clients created so far by mqtt.connect
    tstate,     \* per transport client: "none" (not created), "connecting"
                \* (also between a close and the next attempt), "connected",
                \* "broken" (failed, close event pending), "ending" (end()
                \* called, close event pending), "ended"
    pc,         \* per call slot: "idle", or inside "connect", "subscribe", "publish"
    elapsed,    \* per slot inside connect: Date.now() - start when the loop last looked
    mine,       \* per slot inside connect: the transport client the call created
    req,        \* per slot inside subscribe/publish: the client its request went to
    sawAck0,    \* per slot inside connect: its client was acknowledged with code 0
    sawFail,    \* per slot inside connect: its client saw an error or a nonzero code
    finished,   \* the call that finished in the step that led here, if one did:
                \* operation, outcome, whether it called the transport client
    args,       \* the arguments of the subscribe() or publish() call that handed
                \* its request to the transport client in the step that led here
    wire,       \* what passed between session and transport client in that
                \* step: a request handed over, or the answer to one
    everTrue,   \* some connect() has returned true
    failed      \* the last connect() to finish returned false, no connect since

vars == <<phase, cfg, ctorError, files, client, connected, nClients, tstate,
          pc, elapsed, mine, req, sawAck0, sawFail, finished, args, wire,
          everTrue, failed>>

sessionVars == <<client, connected>>
ctorVars == <<phase, cfg, ctorError, files>>
taskVars == <<pc, elapsed, mine, req, sawAck0, sawFail>>

\* a new call takes the first slot that is free
Free(t) == pc[t] = "idle" /\ \A u \in Tasks : u < t => pc[u] # "idle"

NoCall == [op |-> "none", value |-> "none", io |-> FALSE]

\* a call finishes: what the caller gets
Finish(o, v, io) == finished' = [op |-> o, value |-> v, io |-> io]

\* a step in which no call finishes
Quiet == finished' = NoCall

Bool(b) == IF b THEN "true" ELSE "false"

\* topics a caller passes
Topics == {"t", "u"}

\* the qos argument: left out, or given (here 2)
QosArgs == {[has |-> FALSE, qos |-> 0], [has |-> TRUE, qos |-> 2]}

\* qos: 0 | 1 | 2 = 1
DefaultQos(q) == IF q.has THEN q.qos ELSE 1

NoArgs == [op |-> "none", topic |-> "", qos |-> [has |-> FALSE, qos |-> 0]]
NoWire == [kind |-> "none", op |-> "none", topic |-> "", qos |-> 0, err |-> FALSE]

\* client.subscribe(topic, {qos}, cb) / client.publish(topic, payload, {qos}, cb)
Request(o, topic, qos) ==
    [kind |-> "request", op |-> o, topic |-> topic, qos |-> qos, err |-> FALSE]

\* the transport client calls cb(err)
Answer(o, err) == [kind |-> "answer", op |-> o, topic |-> "", qos |-> 0, err |-> err]

\* a step without a request to the transport client or an answer from it
Silent == args' = NoArgs /\ wire' = NoWire

Init ==
    /\ phase = "new"
    /\ cfg = NoConfig
    /\ ctorError = NoError
    /\ files = {}
    /\ client = 0
    /\ connected = FALSE
    /\ nClients = 0
    /\ tstate = [c \in Clients |-> "none"]
    /\ pc = [t \in Tasks |-> "idle"]
    /\ elapsed = [t \in Tasks |-> 0]
    /\ mine = [t \in Tasks |-> 0]
    /\ req = [t \in Tasks |-> 0]
    /\ sawAck0 = [t \in Tasks |-> FALSE]
    /\ sawFail = [t \in Tasks |-> FALSE]
    /\ finished = NoCall
    /\ args = NoArgs
    /\ wire = NoWire
    /\ everTrue = FALSE
    /\ failed = FALSE

(* ---------------- constructor ---------------- *)
\* new EventGridMqttClient(opts): copies the fields, then validates
Construct ==
    /\ phase = "new"
    /\ \E c \in Configs, disk \in SUBSET Paths :
         LET e == ValidateConfiguration(c, disk)
         IN  /\ cfg' = c
             /\ files' = disk
             /\ ctorError' = e
             /\ phase' = IF e = NoError THEN "ready" ELSE "threw"
    /\ Quiet /\ Silent
    /\ UNCHANGED <<sessionVars, nClients, tstate, taskVars, everTrue, failed>>

(* ---------------- connect() ---------------- *)
KeepPolling_NoTimeout(conn, el) == ~conn

\* while (!this.connected && Date.now() - start < 10_000)
KeepPolling(conn, el) == ~conn /\ el < Timeout

\* connect() up to its first await.  readFileSync throws when a file that
\* existed at construction cannot be read now; nothing catches it.  Otherwise
\* mqtt.connect creates a client, the handlers are attached to it, and the
\* loop condition is evaluated for the first time.
ConnectCall(t) ==
    /\ phase = "ready"
    /\ Free(t)
    /\ \E readable \in BOOLEAN :
         IF ~readable
         THEN /\ Finish("connect", "threw", FALSE)
              /\ UNCHANGED <<sessionVars, nClients, tstate, taskVars, everTrue, failed>>
         ELSE /\ nClients < MaxClients
              /\ nClients' = nClients + 1
              /\ client' = nClients + 1
              /\ tstate' = [tstate EXCEPT ![nClients + 1] = "connecting"]
              /\ UNCHANGED <<connected, req, sawAck0, sawFail>>
              /\ IF KeepPolling(connected, 0)
                 THEN /\ pc' = [pc EXCEPT ![t] = "connect"]
                      /\ elapsed' = [elapsed EXCEPT ![t] = 0]
                      /\ mine' = [mine EXCEPT ![t] = nClients + 1]
                      /\ failed' = FALSE
                      /\ Quiet
                      /\ UNCHANGED everTrue
                 ELSE /\ Finish("connect", Bool(connected), TRUE)
                      /\ everTrue' = (everTrue \/ connected)
                      /\ failed' = ~connected
                      /\ UNCHANGED <<pc, elapsed, mine>>
    /\ Silent
    /\ UNCHANGED ctorVars

\* the timer of the poll loop fires, PollInterval or more after it was set:
\* the loop condition is evaluated again, and connect() sleeps once more or
\* returns this.connected
Poll(t) ==
    /\ pc[t] = "connect"
    /\ LET now == elapsed[t] + PollInterval + Lateness
       IN  IF KeepPolling(connected, now)
           THEN /\ elapsed' = [elapsed EXCEPT ![t] = now]
                /\ Quiet
                /\ UNCHANGED <<pc, mine, sawAck0, sawFail, everTrue, failed>>
           ELSE /\ pc' = [pc EXCEPT ![t] = "idle"]
                /\ Finish("connect", Bool(connected), TRUE)
                /\ elapsed' = [elapsed EXCEPT ![t] = 0]
                /\ mine' = [mine EXCEPT ![t] = 0]
                /\ sawAck0' = [sawAck0 EXCEPT ![t] = FALSE]
                /\ sawFail' = [sawFail EXCEPT ![t] = FALSE]
                /\ everTrue' = (everTrue \/ connected)
                /\ failed' = ~connected
    /\ Silent
    /\ UNCHANGED <<ctorVars, sessionVars, nClients, tstate, req>>

(* ---------------- transport events ---------------- *)
\* CONNACK packets: reason code 0 (success), 135 (not authorized), or none
Packets ==
    {[has |-> FALSE, reasonCode |-> 0], [has |-> TRUE, reasonCode |-> 0],
     [has |-> TRUE, reasonCode |-> 135]}

\* packet.reasonCode ?? 0
CodeOf(packet) == IF packet.has THEN packet.reasonCode ELSE 0

\* 'connect' handler: if (code === 0) this.connected = true
OnConnect(conn, packet) == IF CodeOf(packet) = 0 THEN TRUE ELSE conn

\* the broker answers the CONNECT of client c; after a refusal the connection closes
ConnAck(c) ==
    /\ tstate[c] = "connecting"
    /\ \E packet \in Packets :
         /\ connected' = OnConnect(connected, packet)
         /\ tstate' = [tstate EXCEPT ![c] =
                         IF CodeOf(packet) = 0 THEN "connected" ELSE "broken"]
         /\ sawAck0' = [t \in Tasks |->
                          sawAck0[t] \/ (pc[t] = "connect" /\ mine[t] = c /\ CodeOf(packet) = 0)]
         /\ sawFail' = [t \in Tasks |->
                          sawFail[t] \/ (pc[t] = "connect" /\ mine[t] = c /\ CodeOf(packet) # 0)]
         /\ failed' = (failed /\ ~connected')
    /\ Quiet /\ Silent
    /\ UNCHANGED <<ctorVars, client, nClients, pc, elapsed, mine, req, everTrue>>

\* 'error' handler: logs, writes nothing.  The library reports a connection
\* that failed; its close event follows.
ErrorEvent(c) ==
    /\ tstate[c] \in {"connecting", "connected"}
    /\ tstate' = [tstate EXCEPT ![c] = "broken"]
    /\ sawFail' = [t \in Tasks |-> sawFail[t] \/ (pc[t] = "connect" /\ mine[t] = c)]
    /\ Quiet /\ Silent
    /\ UNCHANGED <<ctorVars, sessionVars, nClients, pc, elapsed, mine, req,
                   sawAck0, everTrue, failed>>

\* 'close' handler: this.connected = false, whichever client closed
OnClose(conn) == FALSE

\* the connection of client c closes: lost, failed, or ended by end(true).
\* The options of connect() leave reconnectPeriod at the library's default,
\* so a client that was not ended goes on to open a new connection.
Close(c) ==
    /\ tstate[c] \in {"connecting", "connected", "broken", "ending"}
    /\ tstate' = [tstate EXCEPT ![c] = IF tstate[c] = "ending" THEN "ended" ELSE "connecting"]
    /\ connected' = OnClose(connected)
    /\ Quiet /\ Silent
    /\ UNCHANGED <<ctorVars, client, nClients, taskVars, everTrue, failed>>

(* ---------------- disconnect() ---------------- *)
\* client.end(true, {}, cb): the library starts closing, unless it already did
End(ts, c) == [ts EXCEPT ![c] = IF @ \in {"ending", "ended"} THEN @ ELSE "ending"]

ClientAfterDisconnect_Null(cl) == 0

\* what disconnect() leaves in this.client
ClientAfterDisconnect(cl) == cl

ConnectedAfterDisconnect_Cleared(conn) == FALSE

\* what disconnect() leaves in this.connected: it does not write the flag
ConnectedAfterDisconnect(conn) == conn

\* if (!this.client) return; this.client.end(true, {}, cb)
DisconnectCall ==
    /\ phase = "ready"
    /\ IF client = 0
       THEN /\ Finish("disconnect", "void", FALSE)
            /\ UNCHANGED tstate
       ELSE /\ Finish("disconnect", "void", TRUE)
            /\ tstate' = End(tstate, client)
    /\ client' = ClientAfterDisconnect(client)
    /\ connected' = ConnectedAfterDisconnect(connected)
    /\ Silent
    /\ UNCHANGED <<ctorVars, nClients, taskVars, everTrue, failed>>

(* ---------------- subscribe() and publish() ---------------- *)
\* if (!this.client || !this.connected) return false
NotConnected(cl, conn) == cl = 0 \/ ~conn

\* subscribe(): the guard, then client.subscribe(topic, {qos}, cb)
SubscribeCall(t) ==
    /\ phase = "ready"
    /\ Free(t)
    /\ IF NotConnected(client, connected)
       THEN /\ Finish("subscribe", "false", FALSE)
            /\ Silent
            /\ UNCHANGED <<pc, req>>
       ELSE \E topic \in Topics, qos \in QosArgs :
              /\ args' = [op |-> "subscribe", topic |-> topic, qos |-> qos]
              /\ wire' = Request("subscribe", topic, DefaultQos(qos))
              /\ pc' = [pc EXCEPT ![t] = "subscribe"]
              /\ req' = [req EXCEPT ![t] = client]
              /\ Quiet
    /\ UNCHANGED <<ctorVars, sessionVars, nClients, tstate, elapsed,
                   mine, sawAck0, sawFail, everTrue, failed>>

\* publish(): the guard, JSON.stringify(event), then
\* client.publish(topic, payload, {qos}, cb).  JSON.stringify throws on an
\* event it cannot serialize; nothing catches it.
PublishCall(t) ==
    /\ phase = "ready"
    /\ Free(t)
    /\ IF NotConnected(client, connected)
       THEN /\ Finish("publish", "false", FALSE)
            /\ Silent
            /\ UNCHANGED <<pc, req>>
       ELSE \E serializable \in BOOLEAN :
              IF ~serializable
              THEN /\ Finish("publish", "threw", FALSE)
                   /\ Silent
                   /\ UNCHANGED <<pc, req>>
              ELSE \E topic \in Topics, qos \in QosArgs :
                     /\ args' = [op |-> "publish", topic |-> topic, qos |-> qos]
                     /\ wire' = Request("publish", topic, DefaultQos(qos))
                     /\ pc' = [pc EXCEPT ![t] = "publish"]
                     /\ req' = [req EXCEPT ![t] = client]
                     /\ Quiet
    /\ UNCHANGED <<ctorVars, sessionVars, nClients, tstate, elapsed,
                   mine, sawAck0, sawFail, everTrue, failed>>

\* if (err) resolve(false) else resolve(true)
Resolve(err) == IF err THEN "false" ELSE "true"

\* the callback of subscribe/publish: (err) => resolve(err ? false : true).
\* The library reports success only over an open connection; a client that
\* was ended answers every request with an error.
Callback(t) ==
    /\ pc[t] \in {"subscribe", "publish"}
    /\ \E err \in BOOLEAN :
         /\ (~err => tstate[req[t]] = "connected")
         /\ wire' = Answer(pc[t], err)
         /\ Finish(pc[t], Resolve(err), TRUE)
    /\ args' = NoArgs
    /\ pc' = [pc EXCEPT ![t] = "idle"]
    /\ req' = [req EXCEPT ![t] = 0]
    /\ UNCHANGED <<ctorVars, sessionVars, nClients, tstate, elapsed,
                   mine, sawAck0, sawFail, everTrue, failed>>

(* ---------------- specification ---------------- *)
Next ==
    \/ Construct
    \/ \E t \in Tasks : ConnectCall(t)
    \/ \E t \in Tasks : Poll(t)
    \/ \E c \in Clients : ConnAck(c)
    \/ \E c \in Clients : ErrorEvent(c)
    \/ \E c \in Clients : Close(c)
    \/ DisconnectCall
    \/ \E t \in Tasks : SubscribeCall(t)
    \/ \E t \in Tasks : PublishCall(t)
    \/ \E t \in Tasks : Callback(t)

Spec == Init /\ [][Next]_vars

\* setTimeout timers fire: a poll loop that is asleep wakes up again
LiveSpec == Spec /\ \A t \in Tasks : WF_vars(Poll(t))

(* ---------------- the spec's connection state ---------------- *)
\* The code keeps a flag, not a state; the four states of the spec are read
\* off it: Connected is the flag, Connecting a connect() inside its poll loop,
\* Failed a connect() that last ended without the flag, Disconnected the rest.
StateOf(conn, pcs, f) ==
    IF conn THEN "Connected"
    ELSE IF \E t \in Tasks : pcs[t] = "connect" THEN "Connecting"
    ELSE IF f THEN "Failed"
    ELSE "Disconnected"

State == StateOf(connected, pc, failed)

ListedTransitions ==
    {<<"Disconnected", "Connecting">>, <<"Connecting", "Connected">>,
     <<"Connecting", "Failed">>, <<"Connected", "Disconnected">>,
     <<"Failed", "Connecting">>}

\* the client the session holds was ended by disconnect(), no connect() since
AfterDisconnect == client # 0 /\ tstate[client] \in {"ending", "ended"}

\* steps: a call of the named operation finishes
Finishes(o) == finished'.op = o
\* steps: the connect() call of slot t leaves its poll loop
LeavesLoop(t) == pc[t] = "connect" /\ pc'[t] = "idle"
\* steps: the poll loop of slot t wakes up
WakesUp(t) == pc[t] = "connect" /\ (pc'[t] # pc[t] \/ elapsed'[t] # elapsed[t])
\* steps: slot t hands a SUBSCRIBE or PUBLISH to the transport client
Issues(t) == pc[t] = "idle" /\ pc'[t] \in {"subscribe", "publish"}

\* the options of the config that are required and missing
MissingRequired(c) ==
    \/ Falsy(c.namespace) \/ Falsy(c.region) \/ Falsy(c.clientId)
    \/ Falsy(c.username) \/ Falsy(c.clientCertFile) \/ Falsy(c.clientKeyFile)

(* ---------------- claims ---------------- *)

\* C1: a connect() whose client was acknowledged with reason code 0 returns
\* true with the flag set; one whose client got a nonzero reason code or an
\* error event returns false with the flag clear.
C1_AckDecidesConnect ==
    [][\A t \in Tasks : LeavesLoop(t) =>
          /\ (sawAck0[t] => finished'.value = "true" /\ connected')
          /\ (sawFail[t] => finished'.value = "false" /\ ~connected')]_vars

\* C2: until some connect() has returned true, subscribe() and publish()
\* return false and hand nothing to the transport client.
C2_NoRequestBeforeConnect ==
    [][~everTrue =>
          /\ \A t \in Tasks : ~Issues(t)
          /\ (Finishes("subscribe") \/ Finishes("publish")) =>
                finished'.value = "false" /\ ~finished'.io]_vars

\* C3: disconnect() on a connected session leaves the flag clear when it
\* returns, and from then on no subscribe() or publish() on the ended client
\* returns anything but false.
C3_DisconnectedOnReturn ==
    /\ [][Finishes("disconnect") /\ connected => ~connected']_vars
    /\ [][AfterDisconnect =>
            /\ \A t \in Tasks :
                 (pc[t] \in {"subscribe", "publish"} /\ req[t] = client /\ pc'[t] = "idle")
                     => finished'.value = "false"
            /\ ((Finishes("subscribe") \/ Finishes("publish")) /\ pc' = pc)
                     => finished'.value = "false"]_vars

C5_NoAutomaticReconnect ==
    [][(~connected /\ connected') => \E t \in Tasks : pc[t] = "connect"]_vars

\* C6 as claimed: disconnect() on a session that is not connected (no call
\* in progress, the flag clear or the held client already ended) calls
\* nothing on the transport client and changes no state.
C6_DisconnectNoOp ==
    [][(/\ Finishes("disconnect")
        /\ \A t \in Tasks : pc[t] = "idle"
        /\ ~connected \/ AfterDisconnect) =>
          /\ ~finished'.io
          /\ UNCHANGED <<client, connected, tstate>>]_vars

\* C6 as amended: disconnect() never throws and never changes the session's
\* client reference or flag; it calls end() exactly when the session holds a
\* client, and on a client that was already ended that call changes nothing.
C6_DisconnectKeepsSession ==
    [][Finishes("disconnect") =>
          /\ finished'.value = "void"
          /\ UNCHANGED <<client, connected>>
          /\ finished'.io <=> client # 0
          /\ (client = 0 \/ AfterDisconnect) => UNCHANGED tstate]_vars

\* disconnect() was called on a session that is not connected and holds an ended client
C6_Witness ==
    /\ finished.op = "disconnect" /\ finished.io
    /\ ~connected /\ client # 0 /\ tstate[client] = "ended"

\* C7: the connection state changes only along the listed transitions.
C7_OnlyListedTransitions ==
    [][StateOf(connected', pc', failed') # State =>
          <<State, StateOf(connected', pc', failed')>> \in ListedTransitions]_vars

\* C8: no call of connect(), subscribe() or publish() ends with an exception.
C8_NoExceptionEscapes == finished.value # "threw"

\* C9: once its client has seen an error or a nonzero reason code, a
\* connect() returns false the next time its poll loop wakes up.
C9_StopsWaitingOnFailure ==
    [][\A t \in Tasks : (WakesUp(t) /\ sawFail[t]) =>
          pc'[t] = "idle" /\ finished'.value = "false"]_vars

\* C10: a config that misses a required option makes the constructor throw,
\* and no transport client exists then or later.
C10_MissingFieldThrows ==
    (phase # "new" /\ MissingRequired(cfg)) =>
        /\ phase = "threw"
        /\ nClients = 0 /\ client = 0
        /\ \A c \in Clients : tstate[c] = "none"

\* the constructor threw for a config whose only fault is the missing username
C10_Witness ==
    /\ phase = "threw" /\ ctorError.kind = "Username is required"
    /\ cfg.username = <<>>
    /\ ~Falsy(cfg.namespace) /\ ~Falsy(cfg.region) /\ ~Falsy(cfg.clientId)
    /\ ~Falsy(cfg.clientCertFile) /\ ~Falsy(cfg.clientKeyFile)
    /\ nClients = 0

\* the characters of a client id outside [A-Za-z0-9_-]
Offending(id) == {id[i] : i \in 1 .. Len(id)} \ AllowedChars

\* every required option but the client id is given
OthersGiven(c) ==
    /\ ~Falsy(c.namespace) /\ ~Falsy(c.region) /\ ~Falsy(c.username)
    /\ ~Falsy(c.clientCertFile) /\ ~Falsy(c.clientKeyFile)

\* C11: for every client id with a character outside [A-Za-z0-9_-] (the other
\* options given), the constructor throws the invalid-characters error and
\* the error lists exactly the offending characters, each once; also when the
\* client id is longer than 23 characters.
C11_ListsOffendingChars ==
    (/\ phase # "new" /\ OthersGiven(cfg)
     /\ ~Falsy(cfg.clientId) /\ Offending(cfg.clientId) # {}) =>
        /\ phase = "threw"
        /\ ctorError.kind = "Client ID contains invalid characters"
        /\ {ctorError.chars[i] : i \in 1 .. Len(ctorError.chars)} = Offending(cfg.clientId)
        /\ Len(ctorError.chars) = Cardinality(Offending(cfg.clientId))

\* C12: a client id longer than 23 characters makes the constructor throw
\* (the length error when the other options are given), and a client id of
\* exactly 23 allowed characters is not rejected for its length.
C12_LongClientIdThrows ==
    /\ (phase # "new" /\ ~Falsy(cfg.clientId) /\ Len(cfg.clientId) > MaxClientIdLength) =>
          /\ phase = "threw"
          /\ ctorError # NoError
          /\ OthersGiven(cfg) => ctorError.kind = "Client ID too long"
    /\ (phase # "new" /\ ~Falsy(cfg.clientId) /\ Len(cfg.clientId) = MaxClientIdLength) =>
          ctorError.kind # "Client ID too long"

\* the constructor threw for a config whose only fault is a client id of 24
\* allowed characters
C12_Witness ==
    /\ phase = "threw" /\ ctorError.kind = "Client ID too long"
    /\ cfg.clientId = Rep(MaxClientIdLength + 1, "a") /\ OthersGiven(cfg)
    /\ files = Paths

\* the client id passes the length and the character test
ClientIdValid(id) ==
    ~Falsy(id) /\ Len(id) <= MaxClientIdLength /\ Offending(id) = {}

\* C13: when the certificate file or the key file of the config is not on
\* disk the constructor throws, and with every other option valid the error
\* is the not-found error of the first of the two that is missing.
C13_MissingFileThrows ==
    (/\ phase # "new"
     /\ ~Falsy(cfg.clientCertFile) /\ ~Falsy(cfg.clientKeyFile)
     /\ cfg.clientCertFile \notin files \/ cfg.clientKeyFile \notin files) =>
        /\ phase = "threw"
        /\ nClients = 0 /\ client = 0
        /\ (OthersGiven(cfg) /\ ClientIdValid(cfg.clientId)) =>
              ctorError.kind = IF cfg.clientCertFile \notin files
                               THEN "Client certificate file not found"
                               ELSE "Client key file not found"

\* the constructor threw for a config whose only fault is the missing key file
C13_Witness ==
    /\ phase = "threw" /\ ctorError.kind = "Client key file not found"
    /\ OthersGiven(cfg) /\ ClientIdValid(cfg.clientId)
    /\ cfg.clientCertFile \in files /\ cfg.clientKeyFile \notin files

\* steps: a subscribe(), publish() or disconnect() call runs (starts or finishes)
CallerStep ==
    \/ Finishes("subscribe") \/ Finishes("publish") \/ Finishes("disconnect")
    \/ \E t \in Tasks : Issues(t)

\* C14: the flag is written only by the connect and close handlers of a
\* transport client: a step that changes it is such an event, the steps of
\* subscribe(), publish() and disconnect() leave it alone, and once the
\* constructor has run the configuration never changes.
C14_OnlyHandlersWrite ==
    [][/\ connected' # connected => \E c \in Clients : ConnAck(c) \/ Close(c)
       /\ CallerStep => connected' = connected
       /\ phase # "new" => cfg' = cfg]_vars

\* disconnect() has just returned on a connected session: the flag is still
\* set and the client is closing
C14_Witness ==
    /\ finished.op = "disconnect" /\ finished.io
    /\ connected /\ tstate[client] = "ending"

\* steps: a subscribe() or publish() call is made (it returns at once, or
\* hands its request to the transport client and waits)
Called ==
    \/ \E t \in Tasks : Issues(t)
    \/ (Finishes("subscribe") \/ Finishes("publish")) /\ pc' = pc

\* C15: a subscribe() or publish() call made while the flag is set hands
\* exactly one request to the transport client, of its own kind and with the
\* caller's topic and qos (1 when left out); a request is handed over only in
\* the step of its call; and the call returns when its request is answered,
\* true for success and false for an error.
C15_OneRequestOneAnswer ==
    [][/\ (Called /\ connected) =>
            /\ wire'.kind = "request" /\ wire'.op = args'.op
            /\ \E t \in Tasks : Issues(t) /\ pc'[t] = wire'.op
            /\ wire'.topic = args'.topic
            /\ wire'.qos = IF args'.qos.has THEN args'.qos.qos ELSE 1
            /\ finished' = NoCall
       /\ wire'.kind = "request" => Called
       /\ \A t \in Tasks :
            (pc[t] \in {"subscribe", "publish"} /\ pc'[t] = "idle") =>
                /\ wire'.kind = "answer" /\ wire'.op = pc[t]
                /\ finished'.op = pc[t]
                /\ finished'.value = IF wire'.err THEN "false" ELSE "true"]_vars

\* a transport client that was created and not ended: it holds or is trying
\* to open a connection, and its handlers write the session's flag
Live(c) == tstate[c] \in {"connecting", "connected", "broken"}

\* C16: at most one transport client of the session is live at any time.
C16_AtMostOneLive == Cardinality({c \in Clients : Live(c)}) <= 1

\* the state of a held transport client that is certainly not acknowledged
\* and open: no client is held, or the one held is waiting for an
\* acknowledgment (it was never acknowledged, or has closed since), or it
\* was ended and has closed
Unacknowledged(cl, ts) == cl = 0 \/ ts[cl] \in {"none", "connecting", "ended"}

\* C17: whenever the flag is set, the client the session holds is one that
\* was acknowledged with reason code 0 and has not closed since; and a
\* connect() returns true only if the client it created was acknowledged
\* during the call.
C17_FlagMeansHeldClientAcked ==
    /\ [][connected' => ~Unacknowledged(client', tstate')]_vars
    /\ [][(Finishes("connect") /\ finished'.value = "true") =>
            \E t \in Tasks : LeavesLoop(t) /\ sawAck0[t]]_vars

\* C18: every subscribe() and publish() call that handed its request to the
\* transport client returns: no call waits for its answer forever.
C18_RequestsReturn ==
    \A t \in Tasks : []<>(pc[t] \notin {"subscribe", "publish"})

\* the conditions of a successful construction, in the order the claim gives,
\* each with the error reported when it fails
Conditions(c, fs) ==
    << [holds |-> c.namespace \notin {Undefined, <<>>}, error |-> "Namespace is required"],
       [holds |-> c.region \notin {Undefined, <<>>}, error |-> "Region is required"],
       [holds |-> c.clientId \notin {Undefined, <<>>}, error |-> "Client ID is required"],
       [holds |-> c.username \notin {Undefined, <<>>}, error |-> "Username is required"],
       [holds |-> c.clientCertFile \notin {Undefined, <<>>},
        error |-> "Client certificate file is required"],
       [holds |-> c.clientKeyFile \notin {Undefined, <<>>},
        error |-> "Client private key file is required"],
       [holds |-> Len(c.clientId) <= MaxClientIdLength, error |-> "Client ID too long"],
       [holds |-> \A i \in 1 .. Len(c.clientId) : c.clientId[i] \in AllowedChars,
        error |-> "Client ID contains invalid characters"],
       [holds |-> c.clientCertFile \in fs, error |-> "Client certificate file not found"],
       [holds |-> c.clientKeyFile \in fs, error |-> "Client key file not found"] >>

\* the error of the first condition that fails, "none" when all hold
FirstFailing(c, fs) ==
    LET cs == Conditions(c, fs)
        bad == {i \in 1 .. Len(cs) : ~cs[i].holds}
    IN  IF bad = {} THEN "none"
        ELSE cs[CHOOSE i \in bad : \A j \in bad : i <= j].error

\* C19: the constructor succeeds exactly when every condition holds, and
\* otherwise throws the error of the first condition that fails, in the
\* order: required options, length, characters, certificate file, key file.
C19_FirstFailingCheck ==
    phase # "new" =>
        /\ phase \in {"ready", "threw"}
        /\ phase = "ready" <=>
              \A i \in 1 .. Len(Conditions(cfg, files)) : Conditions(cfg, files)[i].holds
        /\ ctorError.kind = FirstFailing(cfg, files)

\* the constructor threw the length error for a client id that is too long
\* and has an invalid character, with both files missing
C19_Witness ==
    /\ phase = "threw" /\ ctorError.kind = "Client ID too long"
    /\ cfg.clientId = Append(Rep(MaxClientIdLength, "a"), "$")
    /\ OthersGiven(cfg) /\ files = {}

====
